---- MODULE Spec2Model ----
(***************************************************************************)
(* A model of PixelLink (src/pixels.py): the connection to one Pixel die.  *)
(*                                                                         *)
(* The program is single threaded.  Notifications are dispatched to        *)
(* _process_message only while the caller is blocked in                    *)
(* waitForNotifications, so the steps of the model are the pieces of code  *)
(* that run between two such suspension points:                            *)
(*   - the start of a public operation, up to its first wait;              *)
(*   - the dispatch of one notification (the whole of _process_message,    *)
(*     observers included);                                                *)
(*   - the return of a wait, up to the next wait or the end of the         *)
(*     operation.                                                          *)
(* A message is the list of its bytes, as in the code (msg[0] is the       *)
(* kind).  Python's None and the empty list are both falsy and the code    *)
(* only tests truthiness, so None is the empty sequence.  Time is counted  *)
(* in ticks of the performance counter.                                    *)
(***************************************************************************)
EXTENDS Integers, Sequences, FiniteSets, TLC

(***************************************************************************)
(* Bounds of the model.                                                    *)
(***************************************************************************)
\* longest payload handed to an upload
MaxLen == 40
\* largest timeout (in ticks) passed to an operation
MaxTimeout == 1
\* most notifications dispatched during one waitForNotifications
MaxBurst == 2
\* most NotifyUser requests answered during one public operation
MaxNotify == 1

(***************************************************************************)
(* MessageType, DiceType and the constants of PixelLink.                   *)
(***************************************************************************)
WhoAreYou == 1
IAmADie == 2
State == 3
BulkSetup == 5
BulkSetupAck == 6
BulkData == 7
BulkDataAck == 8
TransferAnimSet == 9
TransferAnimSetAck == 10
DebugLog == 13
PlayAnim == 14
RequestBatteryLevel == 27
BatteryLevel == 28
Calibrate == 29
NotifyUser == 31
NotifyUserAck == 32
LastMessageType == 38

DiceTypes == {0, 1, 2}

PIXELS_MESSAGE_BULK_DATA_SIZE == 16

\* _trace = False
trace == FALSE

None == <<>>
\* self._dtype = None
DtypeNone == -1
\* wait_for_message(1, ...) in the constructor
ConstructWait == 1

Min(a, b) == IF a < b THEN a ELSE b

(***************************************************************************)
(* utils.integer_to_bytes(n, 2): the two bytes of n, low byte first.       *)
(***************************************************************************)
integer_to_bytes(n) == <<n % 256, (n \div 256) % 256>>

(***************************************************************************)
(* struct.unpack('<f', ...) and the comparison of two floats.  A float is  *)
(* kept as its four bytes, low byte first; equality is IEEE-754's: a NaN   *)
(* differs from everything, itself included, and the two zeros are equal.  *)
(***************************************************************************)
FloatExp(f) == (f[4] % 128) * 2 + (f[3] \div 128)
FloatMant(f) == (f[3] % 128) * 65536 + f[2] * 256 + f[1]
FloatIsNaN(f) == FloatExp(f) = 255 /\ FloatMant(f) # 0
FloatIsZero(f) == FloatExp(f) = 0 /\ FloatMant(f) = 0
FloatNe(a, b) ==
    \/ FloatIsNaN(a)
    \/ FloatIsNaN(b)
    \/ (a # b /\ ~(FloatIsZero(a) /\ FloatIsZero(b)))

\* self._battery_voltage = -1
MinusOne == <<0, 0, 128, 191>>
\* the attribute does not exist before the constructor sets it
Unset == <<>>

(***************************************************************************)
(* utils.Event: the list of attached callbacks.                            *)
(***************************************************************************)
attach(ev, cb) == Append(ev, cb)

RECURSIVE detach(_, _)
detach(ev, cb) ==
    IF ev = <<>> THEN <<>>
    ELSE IF Head(ev) = cb THEN Tail(ev)
    ELSE <<Head(ev)>> \o detach(Tail(ev), cb)

(***************************************************************************)
(* The inputs: payloads, timeouts and the notifications the die may send.  *)
(***************************************************************************)
Payload(n) == [i \in 1..n |-> (i * 37) % 256]
Lengths(sc) ==
    IF sc = "bulk" THEN 0..MaxLen ELSE {0, PIXELS_MESSAGE_BULK_DATA_SIZE + 1}
Payloads(sc) == {Payload(n) : n \in Lengths(sc)}
Timeouts == (0 - 1)..MaxTimeout

\* 4.0 and a quiet NaN
Voltages == {<<0, 0, 128, 64>>, <<0, 0, 192, 127>>}
AckKinds == {BulkSetupAck, BulkDataAck, TransferAnimSetAck}

Quiet ==
    {<<IAmADie, 1>>, <<IAmADie, 3>>, <<NotifyUser, 5, 1, 1, 63>>}
    \cup {<<k>> : k \in AckKinds}

Inbound(sc) ==
    IF sc = "bulk" THEN Quiet
    ELSE Quiet
         \cup {<<IAmADie, 0>>}
         \cup {<<State, 1, 3>>, <<State, 0, 3>>, <<State, 1>>}
         \cup {<<BatteryLevel>> \o v : v \in Voltages}
         \cup {<<k, 1>> : k \in AckKinds}
         \cup {<<NotifyUser, 5, ok, cancel, 63>> : ok \in 0..1, cancel \in 0..1}
         \cup {<<99>>}

VARIABLES
    scenario,         \* "session" or "bulk": what the die sends and what is uploaded
    pc,               \* where the caller is
    device,           \* the Peripheral: "none", "connected", "disconnected"
    dtype,            \* self._dtype
    face_up,          \* self._face_up
    battery_voltage,  \* self._battery_voltage
    message_received, \* the callbacks attached to self.message_received
    collab,           \* the callbacks the collaborators attached to it
    written,          \* what the current/last operation wrote to the writer
    opname,           \* the current/last public operation
    data,             \* its payload
    timeout,          \* its timeout
    stage,            \* which _send_and_ack of the operation is running
    ack_type,         \* _send_and_ack's ack_type
    ack_msg,          \* _send_and_ack's ack_msg
    elapsed,          \* _send_and_ack's elapsed
    remainingSize,    \* _upload_bulk_data's remainingSize
    offset,           \* _upload_bulk_data's offset
    first_msg,        \* wait_for_message's first_msg
    wait_timeout,     \* the timeout passed to waitForNotifications
    got,              \* notifications dispatched during the current wait
    result,           \* how the last operation ended
    last,             \* the last dispatch: message, events, values before
    ackSeen,          \* first message of ack_type dispatched in this call
    send_obs,         \* the callbacks attached when the last request was written
    prompt,           \* the NotifyUser message _get_continue is blocked on, and where
    timedOut          \* a call of this Session has raised the ack-timeout exception

vars == <<scenario, pc, device, dtype, face_up, battery_voltage, message_received, collab,
          written, opname, data, timeout, stage, ack_type, ack_msg, elapsed,
          remainingSize, offset, first_msg, wait_timeout, got, result, last,
          ackSeen, send_obs, prompt, timedOut>>


NoResult == [op |-> "none", status |-> "none", value |-> None]
NoLast == [msg |-> None, fired |-> <<>>, ans |-> FALSE]

Start ==
    /\ pc = "new"
    /\ device = "none"
    /\ dtype = DtypeNone
    /\ face_up = 0
    /\ battery_voltage = Unset
    /\ message_received = <<>>
    /\ collab = <<>>
    /\ written = <<>>
    /\ opname = "none"
    /\ data = <<>>
    /\ timeout = 0
    /\ stage = "none"
    /\ ack_type = 0
    /\ ack_msg = None
    /\ elapsed = 0
    /\ remainingSize = 0
    /\ offset = 0
    /\ first_msg = None
    /\ wait_timeout = 0
    /\ got = 0
    /\ result = NoResult
    /\ last = NoLast
    /\ ackSeen = None
    /\ send_obs = <<>>
    /\ prompt = None
    /\ timedOut = FALSE

\* the die sends every notification; payloads of a few lengths are uploaded
Init == scenario = "session" /\ Start

\* the die sends the handshake and the acks; payloads of every length
InitBulk == scenario = "bulk" /\ Start


(***************************************************************************)
(* The dispatch of one notification.  The fields it reads and writes are   *)
(* threaded through a record: err is set when an exception was raised, and *)
(* what was assigned before the exception stays assigned.  fired is the    *)
(* list of event notifications of this dispatch, each with the values the  *)
(* callbacks could read when they were called.                             *)
(***************************************************************************)
Cur ==
    [dtype |-> dtype, face_up |-> face_up, battery_voltage |-> battery_voltage,
     written |-> written, first_msg |-> first_msg, ack_msg |-> ack_msg,
     fired |-> <<>>, err |-> FALSE]

Raise(s) == [s EXCEPT !.err = TRUE]

Fire(s, ev, val) ==
    [s EXCEPT !.fired = Append(@, [ev |-> ev, val |-> val, face_up |-> s.face_up,
                                   battery_voltage |-> s.battery_voltage])]

\* _send: the bytes written to the writer
send(s, kind, args) == [s EXCEPT !.written = Append(@, <<kind>> \o args)]

\* mutant: the event fires whether the face changed or not
update_state_Always(s, state, face) ==
    LET f == IF state = 1 THEN face + 1 ELSE 0
    IN  Fire([s EXCEPT !.face_up = f], "face_up_changed", f)

update_state(s, state, face) ==
    LET f == IF state = 1 THEN face + 1 ELSE 0
    IN  IF s.face_up # f
        THEN Fire([s EXCEPT !.face_up = f], "face_up_changed", f)
        ELSE s

update_battery_voltage(s, voltage) ==
    IF s.battery_voltage = Unset THEN Raise(s)
    ELSE IF FloatNe(s.battery_voltage, voltage)
    THEN Fire([s EXCEPT !.battery_voltage = voltage], "battery_voltage_changed", voltage)
    ELSE s

\* mutant: the answer of the prompt is sent as it is
notify_user_Unforced(s, msg, ans) ==
    IF Len(msg) < 4 THEN Raise(s)
    ELSE [s EXCEPT !.written = Append(@, <<NotifyUserAck, IF ans THEN 1 ELSE 0>>)]

\* ans is what _get_continue returns
notify_user(s, msg, ans) ==
    IF Len(msg) < 4 THEN Raise(s)
    ELSE LET can_abort == msg[3] # 0 /\ msg[4] # 0
             ok == IF ~can_abort THEN TRUE ELSE ans
         IN  send(s, NotifyUserAck, <<IF ok THEN 1 ELSE 0>>)

\* mutant: every message of the ack kind replaces the recorded one
ack_on_message_Latest(s, msg) ==
    IF msg[1] = ack_type THEN [s EXCEPT !.ack_msg = msg] ELSE s

\* mutant: the kind of the message is not looked at
ack_on_message_Any(s, msg) ==
    IF s.ack_msg = None THEN [s EXCEPT !.ack_msg = msg] ELSE s

\* the callback _send_and_ack attaches
ack_on_message(s, msg) ==
    IF s.ack_msg = None /\ msg[1] = ack_type
    THEN [s EXCEPT !.ack_msg = msg]
    ELSE s

\* the callback wait_for_message attaches
wait_on_message(s, msg) == [s EXCEPT !.first_msg = msg]

RECURSIVE notify(_, _, _)
notify(ev, s, msg) ==
    IF ev = <<>> THEN s
    ELSE LET s1 == CASE Head(ev) = "ack" -> ack_on_message(s, msg)
                     [] Head(ev) = "wait" -> wait_on_message(s, msg)
                     [] OTHER -> s
         IN  notify(Tail(ev), s1, msg)

\* mutant: every IAmADie message sets the device kind
handle_Reidentify(s, msg, ans) ==
    CASE msg[1] = IAmADie ->
           IF Len(msg) >= 2 /\ msg[2] \in DiceTypes
           THEN [s EXCEPT !.dtype = msg[2]]
           ELSE Raise(s)
      [] msg[1] = DebugLog -> s
      [] msg[1] = BatteryLevel ->
           IF Len(msg) = 5
           THEN update_battery_voltage(s, SubSeq(msg, 2, 5))
           ELSE Raise(s)
      [] msg[1] = State ->
           IF Len(msg) = 3 THEN update_state(s, msg[2], msg[3]) ELSE Raise(s)
      [] msg[1] = NotifyUser -> notify_user(s, msg, ans)
      [] OTHER -> s

handle(s, msg, ans) ==
    CASE msg[1] = IAmADie ->
           IF s.dtype = DtypeNone \/ s.dtype = 0
           THEN IF Len(msg) >= 2 /\ msg[2] \in DiceTypes
                THEN [s EXCEPT !.dtype = msg[2]]
                ELSE Raise(s)
           ELSE s
      [] msg[1] = DebugLog -> s
      [] msg[1] = BatteryLevel ->
           IF Len(msg) = 5
           THEN update_battery_voltage(s, SubSeq(msg, 2, 5))
           ELSE Raise(s)
      [] msg[1] = State ->
           IF Len(msg) = 3 THEN update_state(s, msg[2], msg[3]) ELSE Raise(s)
      [] msg[1] = NotifyUser -> notify_user(s, msg, ans)
      [] OTHER -> s

\* mutant: the message is published before its handler runs
process_message_PublishFirst(s, msg, ans) ==
    IF msg = <<>> THEN Raise(s)
    ELSE handle(notify(message_received, Fire(s, "message_received", msg), msg), msg, ans)

process_message(s, msg, ans) ==
    IF msg = <<>> THEN Raise(s)
    ELSE IF trace /\ msg[1] \notin 0..LastMessageType THEN Raise(s)
    ELSE LET s1 == handle(s, msg, ans)
         IN  IF s1.err THEN s1
             ELSE notify(message_received, Fire(s1, "message_received", msg), msg)


(***************************************************************************)
(* The finally blocks of wait_for_message and of _send_and_ack.            *)
(***************************************************************************)
wait_finally(ev) == detach(ev, "wait")
\* mutant: _send_and_ack leaves its callback attached
ack_finally_Skip(ev) == ev
ack_finally(ev) == detach(ev, "ack")

\* how the running operation ends
Failed(status, value) == [op |-> opname, status |-> status, value |-> value]

\* the locals of a finished call are gone
ClearCall ==
    /\ stage' = "none"
    /\ ack_type' = 0
    /\ ack_msg' = None
    /\ elapsed' = 0
    /\ remainingSize' = 0
    /\ offset' = 0
    /\ first_msg' = None
    /\ wait_timeout' = 0
    /\ got' = 0
    /\ ackSeen' = None
    /\ send_obs' = <<>>

(***************************************************************************)
(* __init__, up to the wait for IAmADie.                                   *)
(***************************************************************************)
Construct ==
    /\ pc = "new"
    /\ device' = "connected"
    /\ message_received' = attach(<<>>, "wait")
    /\ face_up' = 0
    /\ dtype' = DtypeNone
    /\ written' = <<<<WhoAreYou>>>>
    /\ opname' = "construct"
    /\ first_msg' = None
    /\ wait_timeout' = ConstructWait
    /\ got' = 0
    /\ pc' = "ident_wait"
    /\ UNCHANGED <<battery_voltage, collab, scenario, timedOut, prompt, data, timeout, stage, ack_type, ack_msg,
                   elapsed, remainingSize, offset, result, last, ackSeen, send_obs>>

\* the Pixel service is not found: the except clause disconnects
ConstructNoService ==
    /\ pc = "new"
    /\ device' = "disconnected"
    /\ opname' = "construct"
    /\ result' = [op |-> "construct", status |-> "Error", value |-> None]
    /\ pc' = "failed"
    /\ UNCHANGED <<dtype, face_up, battery_voltage, message_received, collab, scenario, timedOut, prompt, written,
                   data, timeout, stage, ack_type, ack_msg, elapsed, remainingSize,
                   offset, first_msg, wait_timeout, got, last, ackSeen, send_obs>>

WaitPcs == {"ident_wait", "batt_wait", "wfm_wait", "ack_wait"}

NotifyUserAcks(w) == Len(SelectSeq(w, LAMBDA m : m[1] = NotifyUserAck))

(***************************************************************************)
(* handleNotification: one notification is dispatched during a wait.       *)
(***************************************************************************)
Dispatched(msg, ans, s) ==
    /\ dtype' = s.dtype
    /\ face_up' = s.face_up
    /\ battery_voltage' = s.battery_voltage
    /\ written' = s.written
    /\ last' = [msg |-> msg, fired |-> s.fired, ans |-> ans]

Deliverable(msg) ==
    /\ pc \in WaitPcs
    /\ got < MaxBurst
    /\ msg \in Inbound(scenario)
    /\ msg[1] = NotifyUser => NotifyUserAcks(written) < MaxNotify

\* the pc of the wait in progress, also while its dispatch is in the prompt
Waiting == IF pc = "prompt" THEN prompt.pc ELSE pc

Delivered(msg, ans, s) ==
    /\ ~s.err
    /\ Dispatched(msg, ans, s)
    /\ first_msg' = s.first_msg
    /\ ack_msg' = s.ack_msg
    /\ got' = got + 1
    /\ ackSeen' = IF Waiting = "ack_wait" /\ ackSeen = None /\ msg[1] = ack_type
                  THEN msg ELSE ackSeen

Deliver ==
    \E msg \in Inbound(scenario) :
        LET s == process_message(Cur, msg, TRUE)
        IN  /\ Deliverable(msg)
            /\ msg[1] # NotifyUser
            /\ Delivered(msg, TRUE, s)
            /\ UNCHANGED <<pc, device, message_received, collab, scenario, timedOut, prompt, opname, data, timeout,
                           stage, ack_type, elapsed, remainingSize, offset,
                           wait_timeout, result, send_obs>>

(***************************************************************************)
(* The dispatch of a NotifyUser message: _notify_user prints the question  *)
(* and calls _get_continue, which blocks in getch() until a key is         *)
(* pressed; the timeout of the message is printed and not used.            *)
(***************************************************************************)
NotifyUserPrompt ==
    \E msg \in Inbound(scenario) :
        /\ Deliverable(msg)
        /\ msg[1] = NotifyUser
        /\ Len(msg) >= 4
        /\ prompt' = [msg |-> msg, pc |-> pc]
        /\ pc' = "prompt"
        /\ last' = [msg |-> msg, fired |-> <<>>, ans |-> FALSE]
        /\ UNCHANGED <<scenario, timedOut, device, dtype, face_up, battery_voltage, message_received,
                       collab, written, opname, data, timeout, stage, ack_type, ack_msg,
                       elapsed, remainingSize, offset, first_msg, wait_timeout, got,
                       result, ackSeen, send_obs>>

\* a key is pressed: the rest of the dispatch, back in the wait
NotifyUserAnswered ==
    \E ans \in BOOLEAN :
        LET msg == prompt.msg
            s == process_message(Cur, msg, ans)
        IN  /\ pc = "prompt"
            /\ Delivered(msg, ans, s)
            /\ pc' = prompt.pc
            /\ prompt' = None
            /\ UNCHANGED <<scenario, timedOut, device, message_received, collab, opname, data,
                           timeout, stage, ack_type, elapsed, remainingSize, offset,
                           wait_timeout, result, send_obs>>

\* the dispatch raises: the exception leaves every call on the stack
DeliverRaises ==
    \E msg \in Inbound(scenario) :
        LET s == process_message(Cur, msg, TRUE)
        IN  /\ Deliverable(msg)
            /\ msg[1] # NotifyUser
            /\ s.err
            /\ Dispatched(msg, TRUE, s)
            /\ message_received' =
                   IF pc = "ack_wait"
                   THEN ack_finally(wait_finally(message_received))
                   ELSE wait_finally(message_received)
            /\ device' = IF pc \in {"ident_wait", "batt_wait"}
                         THEN "disconnected" ELSE device
            /\ pc' = IF pc \in {"ident_wait", "batt_wait"} THEN "failed" ELSE "idle"
            /\ result' = Failed("Error", None)
            /\ ClearCall
            /\ UNCHANGED <<collab, scenario, timedOut, prompt, opname, data, timeout>>


(***************************************************************************)
(* __init__ after wait_for_message(1, MessageType.IAmADie) returned,       *)
(* whether a notification arrived or not.                                  *)
(***************************************************************************)
\* mutant: "is not None" instead of the truth value
Identified_NotNone == dtype # DtypeNone
Identified == dtype # DtypeNone /\ dtype # 0

\* mutant: the constructor waits again until IAmADie has come
IdentFails_Retry ==
    /\ pc = "ident_wait"
    /\ ~Identified
    /\ first_msg' = None
    /\ got' = 0
    /\ last' = NoLast
    /\ UNCHANGED <<pc, device, dtype, face_up, battery_voltage, message_received, collab,
                   scenario, timedOut, prompt, written, opname, data, timeout, stage,
                   ack_type, ack_msg, elapsed, remainingSize, offset, wait_timeout, result,
                   ackSeen, send_obs>>

IdentFails ==
    /\ pc = "ident_wait"
    /\ ~Identified
    /\ message_received' = wait_finally(message_received)
    /\ device' = "disconnected"
    /\ result' = Failed("Error", None)
    /\ pc' = "failed"
    /\ last' = NoLast
    /\ ClearCall
    /\ UNCHANGED <<dtype, face_up, battery_voltage, collab, scenario, timedOut, prompt, written, opname, data,
                   timeout>>

IdentSucceeds ==
    /\ pc = "ident_wait"
    /\ Identified
    /\ battery_voltage' = MinusOne
    /\ written' = Append(written, <<RequestBatteryLevel>>)
    /\ message_received' = attach(wait_finally(message_received), "wait")
    /\ first_msg' = None
    /\ wait_timeout' = ConstructWait
    /\ got' = 0
    /\ pc' = "batt_wait"
    /\ last' = NoLast
    /\ UNCHANGED <<device, dtype, face_up, collab, scenario, timedOut, prompt, opname, data, timeout, stage,
                   ack_type, ack_msg, elapsed, remainingSize, offset, result, ackSeen, send_obs>>

\* wait_for_message(1, MessageType.BatteryLevel) returned: __init__ returns
BatteryWaitReturns ==
    /\ pc = "batt_wait"
    /\ message_received' = wait_finally(message_received)
    /\ result' = [op |-> "construct", status |-> "ok", value |-> None]
    /\ pc' = "idle"
    /\ last' = NoLast
    /\ ClearCall
    /\ UNCHANGED <<device, dtype, face_up, battery_voltage, collab, scenario, timedOut, prompt, written, opname,
                   data, timeout>>

(***************************************************************************)
(* The collaborators attach to and detach from message_received.           *)
(***************************************************************************)
MaxCollab == 1

AttachCollab ==
    /\ pc = "idle"
    /\ Len(collab) < MaxCollab
    /\ message_received' = attach(message_received, "collaborator")
    /\ collab' = attach(collab, "collaborator")
    /\ UNCHANGED <<scenario, timedOut, prompt, pc, device, dtype, face_up, battery_voltage, written, opname, data,
                   timeout, stage, ack_type, ack_msg, elapsed, remainingSize, offset,
                   first_msg, wait_timeout, got, result, last, ackSeen, send_obs>>

DetachCollab ==
    /\ pc = "idle"
    /\ collab # <<>>
    /\ message_received' = detach(message_received, "collaborator")
    /\ collab' = detach(collab, "collaborator")
    /\ UNCHANGED <<scenario, timedOut, prompt, pc, device, dtype, face_up, battery_voltage, written, opname, data,
                   timeout, stage, ack_type, ack_msg, elapsed, remainingSize, offset,
                   first_msg, wait_timeout, got, result, last, ackSeen, send_obs>>

(***************************************************************************)
(* wait_for_message called by the user of the session.                     *)
(***************************************************************************)
WaitForMessage ==
    /\ pc = "idle"
    /\ \E t \in 0..MaxTimeout :
        /\ timeout' = t
        /\ wait_timeout' = t
    /\ opname' = "wait_for_message"
    /\ data' = <<>>
    /\ written' = <<>>
    /\ message_received' = attach(message_received, "wait")
    /\ first_msg' = None
    /\ got' = 0
    /\ result' = NoResult
    /\ last' = NoLast
    /\ pc' = "wfm_wait"
    /\ UNCHANGED <<device, dtype, face_up, battery_voltage, collab, scenario, timedOut, prompt, stage, ack_type,
                   ack_msg, elapsed, remainingSize, offset, ackSeen, send_obs>>

WaitForMessageReturns ==
    /\ pc = "wfm_wait"
    /\ message_received' = wait_finally(message_received)
    /\ result' = [op |-> "wait_for_message", status |-> "ok", value |-> first_msg]
    /\ pc' = "idle"
    /\ last' = NoLast
    /\ ClearCall
    /\ UNCHANGED <<device, dtype, face_up, battery_voltage, collab, scenario, timedOut, prompt, written, opname,
                   data, timeout>>

(***************************************************************************)
(* play, calibrate, refresh_battery_voltage: one _send each.               *)
(***************************************************************************)
FireAndForget ==
    /\ pc = "idle"
    /\ \E m \in {<<PlayAnim, 0, 0, 0>>, <<Calibrate>>, <<RequestBatteryLevel>>} :
        written' = <<m>>
    /\ opname' = "send"
    /\ data' = <<>>
    /\ timeout' = 0
    /\ result' = [op |-> "send", status |-> "ok", value |-> None]
    /\ last' = NoLast
    /\ UNCHANGED <<pc, device, dtype, face_up, battery_voltage, message_received,
                   collab, scenario, timedOut, prompt, stage, ack_type, ack_msg, elapsed, remainingSize, offset,
                   first_msg, wait_timeout, got, ackSeen, send_obs>>


(***************************************************************************)
(* _send_and_ack, from its call to its first wait: the request is written, *)
(* the callback is attached, the clock is read and wait_for_message is     *)
(* called with the whole timeout.  w and ev are the writer's log and the   *)
(* callbacks of message_received when it is called.                        *)
(***************************************************************************)
send_and_ack(w, ev, kind, args, ackk, t, stg) ==
    /\ written' = Append(w, <<kind>> \o args)
    /\ send_obs' = ev
    /\ message_received' = attach(attach(ev, "ack"), "wait")
    /\ ack_type' = ackk
    /\ ack_msg' = None
    /\ ackSeen' = None
    /\ elapsed' = 0
    /\ first_msg' = None
    /\ wait_timeout' = t - 0
    /\ got' = 0
    /\ stage' = stg
    /\ pc' = "ack_wait"
    /\ last' = NoLast

\* an operation ends: its result, with the callbacks left attached
Finish(ev, res) ==
    /\ message_received' = ev
    /\ result' = res
    /\ pc' = "idle"
    /\ last' = NoLast
    /\ ClearCall

\* mutant: every chunk is announced as a full one
ChunkSize_Full(remaining) == PIXELS_MESSAGE_BULK_DATA_SIZE
ChunkSize(remaining) == Min(remaining, PIXELS_MESSAGE_BULK_DATA_SIZE)
\* Python's d[a:b], which stops at the end of d
Slice(d, a, b) == SubSeq(d, Min(a, Len(d)) + 1, Min(b, Len(d)))
ChunkArgs(d, off, size) ==
    <<size>> \o integer_to_bytes(off) \o Slice(d, off, off + size)
SetupArgs(d) == integer_to_bytes(Len(d))

\* the six 2-byte fields of upload_animation_set, for a set with one of each
AnimSetHeader ==
    integer_to_bytes(1) \o integer_to_bytes(1) \o integer_to_bytes(1)
    \o integer_to_bytes(1) \o integer_to_bytes(1) \o integer_to_bytes(0)

(***************************************************************************)
(* _upload_bulk_data called on its own.                                    *)
(***************************************************************************)
\* mutant: the two assertions are missing
UploadBulkData_Unchecked ==
    /\ pc = "idle"
    /\ \E d \in Payloads(scenario), t \in Timeouts :
        /\ data' = d
        /\ timeout' = t
    /\ opname' = "upload_bulk_data"
    /\ result' = NoResult
    /\ send_and_ack(<<>>, message_received, BulkSetup, SetupArgs(data'),
                    BulkSetupAck, timeout', "setup")
    /\ UNCHANGED <<device, dtype, face_up, battery_voltage, collab, scenario, timedOut, prompt,
                   remainingSize, offset>>

UploadBulkData ==
    /\ pc = "idle"
    /\ \E d \in Payloads(scenario), t \in Timeouts :
        /\ Len(d) # 0
        /\ t >= 0
        /\ data' = d
        /\ timeout' = t
    /\ opname' = "upload_bulk_data"
    /\ result' = NoResult
    /\ send_and_ack(<<>>, message_received, BulkSetup, SetupArgs(data'),
                    BulkSetupAck, timeout', "setup")
    /\ UNCHANGED <<device, dtype, face_up, battery_voltage, collab, scenario, timedOut, prompt, remainingSize,
                   offset>>

\* one of its two assertions fails
UploadBulkDataRejected ==
    /\ pc = "idle"
    /\ \E d \in Payloads(scenario), t \in Timeouts :
        /\ Len(d) = 0 \/ t < 0
        /\ data' = d
        /\ timeout' = t
    /\ opname' = "upload_bulk_data"
    /\ written' = <<>>
    /\ Finish(message_received, [op |-> "upload_bulk_data",
                                 status |-> "AssertionError", value |-> None])
    /\ UNCHANGED <<device, dtype, face_up, battery_voltage, collab, scenario, timedOut, prompt>>

(***************************************************************************)
(* upload_animation_set: the header goes first.                            *)
(***************************************************************************)
UploadAnimationSet ==
    /\ pc = "idle"
    /\ \E d \in Payloads(scenario), t \in Timeouts :
        /\ t >= 0
        /\ data' = d
        /\ timeout' = t
    /\ opname' = "upload_animation_set"
    /\ result' = NoResult
    /\ send_and_ack(<<>>, message_received, TransferAnimSet, AnimSetHeader,
                    TransferAnimSetAck, timeout', "header")
    /\ UNCHANGED <<device, dtype, face_up, battery_voltage, collab, scenario, timedOut, prompt, remainingSize,
                   offset>>

\* the assertion of _send_and_ack fails
UploadAnimationSetRejected ==
    /\ pc = "idle"
    /\ \E d \in Payloads(scenario), t \in Timeouts :
        /\ t < 0
        /\ data' = d
        /\ timeout' = t
    /\ opname' = "upload_animation_set"
    /\ written' = <<>>
    /\ Finish(message_received, [op |-> "upload_animation_set",
                                 status |-> "AssertionError", value |-> None])
    /\ UNCHANGED <<device, dtype, face_up, battery_voltage, collab, scenario, timedOut, prompt>>


(***************************************************************************)
(* The loop of _send_and_ack after wait_for_message returned.              *)
(***************************************************************************)
\* what is attached once wait_for_message and _send_and_ack have returned
Released == ack_finally(wait_finally(message_received))

\* mutant: the request is written once more and the wait starts over
AckWaitTimesOut_Resend ==
    /\ pc = "ack_wait"
    /\ got = 0
    /\ LET req == SelectSeq(written, LAMBDA m : m[1] # NotifyUserAck)
           m == req[Len(req)]
       IN  IF Len(req) < 5
           THEN /\ send_and_ack(written, Released, m[1], Tail(m), ack_type, timeout,
                                stage)
                /\ UNCHANGED <<result, remainingSize, offset>>
           ELSE Finish(Released, Failed("AckTimeout", <<ack_type>>))
                /\ UNCHANGED written
    /\ UNCHANGED <<device, dtype, face_up, battery_voltage, collab, scenario, timedOut, prompt, opname,
                   data, timeout>>

\* mutant: the timeout tears the transport down, as the constructor does
AckWaitTimesOut_Disconnect ==
    /\ pc = "ack_wait"
    /\ got = 0
    /\ Finish(Released, Failed("AckTimeout", <<ack_type>>))
    /\ timedOut' = TRUE
    /\ device' = "disconnected"
    /\ UNCHANGED <<dtype, face_up, battery_voltage, collab, scenario, prompt, written, opname,
                   data, timeout>>

\* no notification within the wait: break, and the exception is raised
AckWaitTimesOut ==
    /\ pc = "ack_wait"
    /\ got = 0
    /\ Finish(Released, Failed("AckTimeout", <<ack_type>>))
    /\ timedOut' = TRUE
    /\ UNCHANGED <<device, dtype, face_up, battery_voltage, collab, scenario, prompt, written, opname,
                   data, timeout>>

\* a notification but no ack yet, and the clock is still within the timeout
AckWaitAgain ==
    /\ pc = "ack_wait"
    /\ got > 0
    /\ ack_msg = None
    /\ \E e \in (elapsed + 1)..timeout :
        /\ elapsed' = e
        /\ wait_timeout' = timeout - e
    /\ message_received' = attach(wait_finally(message_received), "wait")
    /\ first_msg' = None
    /\ got' = 0
    /\ last' = NoLast
    /\ UNCHANGED <<pc, device, dtype, face_up, battery_voltage, collab, scenario, timedOut, prompt, written,
                   opname, data, timeout, stage, ack_type, ack_msg, remainingSize,
                   offset, result, ackSeen, send_obs>>

\* a notification but no ack yet, and the clock is past the timeout
AckDeadline ==
    /\ pc = "ack_wait"
    /\ got > 0
    /\ ack_msg = None
    /\ Finish(Released, Failed("AckTimeout", <<ack_type>>))
    /\ timedOut' = TRUE
    /\ UNCHANGED <<device, dtype, face_up, battery_voltage, collab, scenario, prompt, written, opname,
                   data, timeout>>

AckReturns == pc = "ack_wait" /\ got > 0 /\ ack_msg # None

(***************************************************************************)
(* upload_animation_set after TransferAnimSetAck: _upload_bulk_data.       *)
(***************************************************************************)
\* mutant: any notification lets the upload go on to _upload_bulk_data
HeaderAcked_Unacked ==
    /\ pc = "ack_wait"
    /\ got > 0
    /\ stage = "header"
    /\ Len(data) # 0
    /\ send_and_ack(written, Released, BulkSetup, SetupArgs(data), BulkSetupAck,
                    timeout, "setup")
    /\ UNCHANGED <<device, dtype, face_up, battery_voltage, collab, scenario, timedOut, prompt,
                   opname, data, timeout, remainingSize, offset, result>>

HeaderAcked ==
    /\ AckReturns
    /\ stage = "header"
    /\ Len(data) # 0
    /\ send_and_ack(written, Released, BulkSetup, SetupArgs(data), BulkSetupAck,
                    timeout, "setup")
    /\ UNCHANGED <<device, dtype, face_up, battery_voltage, collab, scenario, timedOut, prompt, opname, data,
                   timeout, remainingSize, offset, result>>

HeaderAckedEmpty ==
    /\ AckReturns
    /\ stage = "header"
    /\ Len(data) = 0
    /\ Finish(Released, Failed("AssertionError", None))
    /\ UNCHANGED <<device, dtype, face_up, battery_voltage, collab, scenario, timedOut, prompt, written, opname,
                   data, timeout>>

(***************************************************************************)
(* _upload_bulk_data after BulkSetupAck: the first chunk.                  *)
(***************************************************************************)
SetupAcked ==
    /\ AckReturns
    /\ stage = "setup"
    /\ remainingSize' = Len(data)
    /\ offset' = 0
    /\ send_and_ack(written, Released, BulkData,
                    ChunkArgs(data, 0, ChunkSize(Len(data))), BulkDataAck, timeout, "data")
    /\ UNCHANGED <<device, dtype, face_up, battery_voltage, collab, scenario, timedOut, prompt, opname, data,
                   timeout, result>>

(***************************************************************************)
(* _upload_bulk_data after a BulkDataAck: the next chunk, or the end.      *)
(***************************************************************************)
NextRemaining == remainingSize - ChunkSize(remainingSize)
NextOffset == offset + ChunkSize(remainingSize)

\* mutant: the next chunk is written without waiting for the ack
ChunkAcked_Pipelined ==
    /\ pc = "ack_wait"
    /\ stage = "data"
    /\ NextRemaining > 0
    /\ remainingSize' = NextRemaining
    /\ offset' = NextOffset
    /\ send_and_ack(written, Released, BulkData,
                    ChunkArgs(data, NextOffset, ChunkSize(NextRemaining)),
                    BulkDataAck, timeout, "data")
    /\ UNCHANGED <<device, dtype, face_up, battery_voltage, collab, scenario, timedOut, prompt,
                   opname, data, timeout, result>>

ChunkAcked ==
    /\ AckReturns
    /\ stage = "data"
    /\ NextRemaining > 0
    /\ remainingSize' = NextRemaining
    /\ offset' = NextOffset
    /\ send_and_ack(written, Released, BulkData,
                    ChunkArgs(data, NextOffset, ChunkSize(NextRemaining)),
                    BulkDataAck, timeout, "data")
    /\ UNCHANGED <<device, dtype, face_up, battery_voltage, collab, scenario, timedOut, prompt, opname, data,
                   timeout, result>>

LastChunkAcked ==
    /\ AckReturns
    /\ stage = "data"
    /\ ~(NextRemaining > 0)
    /\ Finish(Released, Failed("ok", None))
    /\ UNCHANGED <<device, dtype, face_up, battery_voltage, collab, scenario, timedOut, prompt, written, opname,
                   data, timeout>>

Next ==
    \/ Construct
    \/ ConstructNoService
    \/ Deliver
    \/ DeliverRaises
    \/ NotifyUserPrompt
    \/ NotifyUserAnswered
    \/ IdentFails
    \/ IdentSucceeds
    \/ BatteryWaitReturns
    \/ AttachCollab
    \/ DetachCollab
    \/ WaitForMessage
    \/ WaitForMessageReturns
    \/ FireAndForget
    \/ UploadBulkData
    \/ UploadBulkDataRejected
    \/ UploadAnimationSet
    \/ UploadAnimationSetRejected
    \/ AckWaitTimesOut
    \/ AckWaitAgain
    \/ AckDeadline
    \/ HeaderAcked
    \/ HeaderAckedEmpty
    \/ SetupAcked
    \/ ChunkAcked
    \/ LastChunkAcked

Spec == Init /\ [][Next]_vars

SpecBulk == InitBulk /\ [][Next]_vars

(***************************************************************************)
(* waitForNotifications(timeout) returns, after a notification or when the *)
(* timeout has passed, and the caller then runs to its next wait or to its *)
(* end.  Nothing of the kind holds of getch(): NotifyUserAnswered is the   *)
(* user's step.                                                            *)
(***************************************************************************)
WaitReturns ==
    \/ IdentFails
    \/ IdentSucceeds
    \/ BatteryWaitReturns
    \/ WaitForMessageReturns
    \/ AckWaitTimesOut
    \/ AckWaitAgain
    \/ AckDeadline
    \/ HeaderAcked
    \/ HeaderAckedEmpty
    \/ SetupAcked
    \/ ChunkAcked
    \/ LastChunkAcked

SpecFair == Spec /\ WF_vars(WaitReturns)


(***************************************************************************)
(* What the claims are stated with.                                        *)
(***************************************************************************)
Uploads == {"upload_bulk_data", "upload_animation_set"}

\* the BulkSetup and BulkData messages of the writer's log, in order
BulkWritten == SelectSeq(written, LAMBDA m : m[1] \in {BulkSetup, BulkData})
\* the log without the replies to NotifyUser
Requests == SelectSeq(written, LAMBDA m : m[1] # NotifyUserAck)

Decode16(lo, hi) == lo + 256 * hi
CeilDiv(a, b) == (a + b - 1) \div b
SizeOf(m) == m[2]
OffsetOf(m) == Decode16(m[3], m[4])

RECURSIVE SumSizes(_, _)
SumSizes(chunks, k) == IF k = 0 THEN 0 ELSE SizeOf(chunks[k]) + SumSizes(chunks, k - 1)

(***************************************************************************)
(* C1: an upload of a non-empty payload of length L that got all its acks  *)
(* wrote one BulkSetup carrying L, before any BulkData, and ceil(L / 16)   *)
(* BulkData; the k-th has size min(remaining, 16) and, as offset, the sum  *)
(* of the sizes before it, offsets strictly increase, and the last offset  *)
(* plus the last size is L.                                                *)
(***************************************************************************)
C1_BulkTransfer ==
    (pc = "idle" /\ result.status = "ok" /\ opname \in Uploads) =>
        LET L == Len(data)
            bulk == BulkWritten
            chunks == Tail(bulk)
            n == Len(chunks)
        IN  /\ L > 0
            /\ bulk # <<>>
            /\ Len(bulk[1]) = 3
            /\ bulk[1][1] = BulkSetup
            /\ Decode16(bulk[1][2], bulk[1][3]) = L
            /\ n = CeilDiv(L, 16)
            /\ \A k \in 1..n :
                /\ chunks[k][1] = BulkData
                /\ SizeOf(chunks[k]) = Min(L - SumSizes(chunks, k - 1), 16)
                /\ OffsetOf(chunks[k]) = SumSizes(chunks, k - 1)
                /\ SubSeq(chunks[k], 5, Len(chunks[k]))
                       = SubSeq(data, OffsetOf(chunks[k]) + 1,
                                OffsetOf(chunks[k]) + SizeOf(chunks[k]))
                /\ k > 1 => OffsetOf(chunks[k]) > OffsetOf(chunks[k - 1])
            /\ OffsetOf(chunks[n]) + SizeOf(chunks[n]) = L

\* a payload of 40 bytes went out as chunks of 16, 16 and 8 at 0, 16 and 32
C1_Witness ==
    /\ pc = "idle"
    /\ result.status = "ok"
    /\ opname = "upload_bulk_data"
    /\ Len(data) = 40
    /\ Len(written) = 4
    /\ <<SizeOf(written[2]), SizeOf(written[3]), SizeOf(written[4])>> = <<16, 16, 8>>
    /\ <<OffsetOf(written[2]), OffsetOf(written[3]), OffsetOf(written[4])>>
           = <<0, 16, 32>>

(***************************************************************************)
(* C2: an upload that ended with the ack-timeout error wrote nothing after *)
(* the request whose ack did not come: no BulkData at all when it was the  *)
(* BulkSetupAck, and no chunk twice when it was a BulkDataAck.             *)
(***************************************************************************)
C2_AfterTimeout ==
    (pc = "idle" /\ result.status = "AckTimeout" /\ opname \in Uploads) =>
        LET req == Requests
            n == Len(req)
        IN  /\ n > 0
            /\ result.value = <<TransferAnimSetAck>> =>
                   /\ n = 1
                   /\ req[1][1] = TransferAnimSet
            /\ result.value = <<BulkSetupAck>> =>
                   /\ req[n][1] = BulkSetup
                   /\ \A i \in 1..n : req[i][1] # BulkData
            /\ result.value = <<BulkDataAck>> =>
                   /\ req[n][1] = BulkData
                   /\ \A i, j \in 1..n :
                        (i < j /\ req[i][1] = BulkData /\ req[j][1] = BulkData)
                            => OffsetOf(req[i]) < OffsetOf(req[j])

\* when a wait of an upload ends without a notification, the caller's next step
\* ends the upload with the ack-timeout error and writes nothing
C2_FailsAtOnce ==
    (pc = "ack_wait" /\ got = 0 /\ last' = NoLast /\ opname \in Uploads) =>
        /\ pc' = "idle"
        /\ result'.status = "AckTimeout"
        /\ result'.value = <<ack_type>>
        /\ written' = written

C2_TimeoutAborts == [](C2_AfterTimeout) /\ [][C2_FailsAtOnce]_vars

\* the ack of the second chunk did not come
C2_Witness ==
    /\ pc = "idle"
    /\ result.status = "AckTimeout"
    /\ result.value = <<BulkDataAck>>
    /\ opname = "upload_bulk_data"
    /\ Len(BulkWritten) = 3
    /\ OffsetOf(BulkWritten[3]) = 16

\* the BulkSetupAck did not come
C2_WitnessSetup ==
    /\ pc = "idle"
    /\ result.status = "AckTimeout"
    /\ result.value = <<BulkSetupAck>>
    /\ opname = "upload_bulk_data"


(***************************************************************************)
(* A step is the dispatch of a notification exactly when it counts one     *)
(* more notification in the current wait; last' is then what it did.       *)
(***************************************************************************)
Dispatch == got' = got + 1
Events(fired, name) == SelectSeq(fired, LAMBDA x : x.ev = name)

(***************************************************************************)
(* C3: when _send_and_ack returns, the message it returns is of the ack    *)
(* kind and is the first message of that kind dispatched since the call    *)
(* started: not an earlier one, and not a later match.                     *)
(***************************************************************************)
C3_AckReturned ==
    AckReturns => (ack_msg[1] = ack_type /\ ack_msg = ackSeen)

\* a second message of the ack kind came in the same wait and was not taken
C3_Witness ==
    /\ AckReturns
    /\ got = 2
    /\ last.msg[1] = ack_type
    /\ last.msg # ack_msg

(***************************************************************************)
(* C4: every call of _send_and_ack ends, with the ack or with the          *)
(* ack-timeout exception, whatever notifications arrive: each wait has the *)
(* timeout that remains, a wait that returns without a notification ends   *)
(* the call with the exception, and no wait starts once elapsed is past    *)
(* the timeout.  (A dispatch that raises ends the call with what it        *)
(* raised.)                                                                *)
(***************************************************************************)
Stages == {"header", "setup", "data"}
CallOffsets == {0, PIXELS_MESSAGE_BULK_DATA_SIZE}
InCall(stg, off) == Waiting = "ack_wait" /\ stage = stg /\ offset = off

C4_Bounded ==
    pc = "ack_wait" =>
        /\ 0 <= elapsed
        /\ elapsed <= timeout
        /\ wait_timeout = timeout - elapsed

C4_WaitReturned ==
    /\ (pc = "ack_wait" /\ got = 0 /\ last' = NoLast) =>
           (pc' = "idle" /\ result'.status = "AckTimeout")
    /\ (pc = "ack_wait" /\ ack_msg = None /\ last' = NoLast) =>
           \/ pc' = "idle" /\ result'.status = "AckTimeout"
           \/ /\ pc' = "ack_wait"
              /\ <<stage', offset'>> = <<stage, offset>>
              /\ elapsed < elapsed'
              /\ elapsed' <= timeout

C4_Ends ==
    \A stg \in Stages, off \in CallOffsets :
        InCall(stg, off) ~> ~InCall(stg, off)

C4_SendAndAckTerminates ==
    [](C4_Bounded) /\ [][C4_WaitReturned]_vars /\ C4_Ends

(***************************************************************************)
(* C5: when no blocking call is running, the callbacks attached to         *)
(* message_received are those of the collaborators: every exit of          *)
(* wait_for_message and of _send_and_ack detached its own.                 *)
(***************************************************************************)
C5_ObserversReleased ==
    pc \in {"idle", "failed"} => message_received = collab

\* an upload ended by an exception raised in the dispatch, a collaborator attached
C5_Witness ==
    /\ pc = "idle"
    /\ opname \in Uploads
    /\ result.status = "Error"
    /\ collab # <<>>

(***************************************************************************)
(* C6: a notification of another kind dispatched while _send_and_ack waits *)
(* goes through _process_message (State and BatteryLevel update the        *)
(* session and fire their events, the message is published) and leaves the *)
(* call waiting: no ack recorded, no result, the same budget; and when the *)
(* wait returns within the timeout the call waits again for what remains.  *)
(***************************************************************************)
SameFloat(a, b) == ~FloatNe(a, b) \/ (FloatIsNaN(a) /\ FloatIsNaN(b))

C6_Dispatched ==
    (Waiting = "ack_wait" /\ Dispatch /\ last'.msg[1] # ack_type) =>
        LET msg == last'.msg
        IN  /\ pc' = "ack_wait"
            /\ ack_msg' = ack_msg
            /\ result' = result
            /\ <<elapsed', wait_timeout', stage', offset'>>
                   = <<elapsed, wait_timeout, stage, offset>>
            /\ Len(Events(last'.fired, "message_received")) = 1
            /\ Events(last'.fired, "message_received")[1].val = msg
            /\ msg[1] = State =>
                   /\ face_up' = IF msg[2] = 1 THEN msg[3] + 1 ELSE 0
                   /\ face_up' # face_up =>
                          Len(Events(last'.fired, "face_up_changed")) = 1
            /\ msg[1] = BatteryLevel =>
                   /\ SameFloat(battery_voltage', SubSeq(msg, 2, 5))
                   /\ battery_voltage' # battery_voltage =>
                          Len(Events(last'.fired, "battery_voltage_changed")) = 1

C6_WaitsAgain ==
    (pc = "ack_wait" /\ got > 0 /\ ack_msg = None /\ pc' = "ack_wait" /\ got' = 0) =>
        /\ elapsed' <= timeout
        /\ wait_timeout' = timeout - elapsed'
        /\ <<stage', offset', written', result'>> = <<stage, offset, written, result>>

C6_CanWaitAgain ==
    (pc = "ack_wait" /\ got > 0 /\ ack_msg = None /\ elapsed < timeout) =>
        ENABLED AckWaitAgain

C7_Dispatched ==
    (Dispatch /\ last'.msg[1] = State) =>
        LET msg == last'.msg
            f == IF msg[2] = 1 THEN msg[3] + 1 ELSE 0
            ev == Events(last'.fired, "face_up_changed")
        IN  /\ face_up' = f
            /\ f # face_up => (Len(ev) = 1 /\ ev[1].val = f /\ ev[1].face_up = f)
            /\ f = face_up => ev = <<>>

C7_FaceUp == [][C7_Dispatched]_vars

\* State(1, 3) dispatched with face 4 already up: no event
C7_Witness ==
    /\ last.msg = <<State, 1, 3>>
    /\ face_up = 4
    /\ Events(last.fired, "face_up_changed") = <<>>

(***************************************************************************)
(* C8: after a BatteryLevel message the stored voltage is the reading, and *)
(* battery_voltage_changed fires once, with the reading, when the reading  *)
(* differs from the voltage stored before, and not when it is the same.    *)
(***************************************************************************)
SameReading(a, b) == a = b \/ ~FloatNe(a, b)

C8_Dispatched ==
    (Dispatch /\ last'.msg[1] = BatteryLevel) =>
        LET v == SubSeq(last'.msg, 2, 5)
            ev == Events(last'.fired, "battery_voltage_changed")
        IN  /\ SameReading(battery_voltage', v)
            /\ IF SameReading(battery_voltage, v)
               THEN ev = <<>>
               ELSE Len(ev) = 1 /\ ev[1].val = v

C8_BatteryVoltage == [][C8_Dispatched]_vars

(***************************************************************************)
(* C9: the dispatch of a NotifyUser message writes one NotifyUserAck: it   *)
(* carries 1 when allowOk or allowCancel is 0, whatever the prompt         *)
(* returned, and otherwise 1 when the prompt returned continue and 0 when  *)
(* it did not.                                                             *)
(***************************************************************************)
C9_Dispatched ==
    (Dispatch /\ last'.msg[1] = NotifyUser) =>
        LET msg == last'.msg
            reply == IF msg[3] = 0 \/ msg[4] = 0 THEN 1
                     ELSE IF last'.ans THEN 1 ELSE 0
        IN  written' = Append(written, <<NotifyUserAck, reply>>)

C9_NotifyUserAck == [][C9_Dispatched]_vars

\* allowOk = 0 and the prompt said abort: the reply carries 1
C9_Witness ==
    /\ last.msg = <<NotifyUser, 5, 0, 1, 63>>
    /\ ~last.ans
    /\ written # <<>>
    /\ written[Len(written)] = <<NotifyUserAck, 1>>

(***************************************************************************)
(* C10: the constructor leaves the wait for IAmADie either identified, by  *)
(* a device kind of 1 or 2, and connected, or failed, with the transport   *)
(* disconnected and no RequestBatteryLevel written; without a valid kind   *)
(* it fails; and the transport is disconnected only when it failed.        *)
(***************************************************************************)
ValidKind(d) == d \in {1, 2}
Asked(w) == \E i \in 1..Len(w) : w[i] = <<RequestBatteryLevel>>

C10_LeavesIdentification ==
    (pc = "ident_wait" /\ pc' \notin {"ident_wait", "prompt"}) =>
        \/ /\ pc' = "batt_wait"
           /\ ValidKind(dtype')
           /\ device' = "connected"
        \/ /\ pc' = "failed"
           /\ result'.status = "Error"
           /\ device' = "disconnected"
           /\ ~Asked(written')

C10_Connected ==
    /\ device = "disconnected" <=> pc = "failed"
    /\ (opname = "construct" /\ result.status = "ok") => device = "connected"
    /\ (opname = "construct" /\ Asked(written)) => ValidKind(dtype)

C10_Construction == [](C10_Connected) /\ [][C10_LeavesIdentification]_vars

\* IAmADie came with device kind 0: failed and disconnected
C10_Witness ==
    /\ pc = "failed"
    /\ dtype = 0
    /\ device = "disconnected"
    /\ written = <<<<WhoAreYou>>>>

(***************************************************************************)
(* C11: the constructor returns only after a BatteryLevel message was      *)
(* received in the wait that follows RequestBatteryLevel; when that wait   *)
(* ends without one the constructor fails and the transport is             *)
(* disconnected.  (-1 is what the constructor stores before it asks, and   *)
(* no reading of Voltages: battery_voltage is -1 when none was received.)  *)
(***************************************************************************)
C11_LeavesBatteryWait ==
    (pc = "batt_wait" /\ pc' \notin {"batt_wait", "prompt"}) =>
        \/ /\ pc' = "idle"
           /\ battery_voltage # MinusOne
           /\ device' = "connected"
        \/ /\ pc' = "failed"
           /\ device' = "disconnected"

C11_ReadyAfterBattery == [][C11_LeavesBatteryWait]_vars

(***************************************************************************)
(* C12: dtype is set by an IAmADie message dispatched in the wait of the   *)
(* identification, to the kind it carries; once it is a device kind (1 or  *)
(* 2) no step changes it, and it is one in every state after the           *)
(* constructor returned.                                                   *)
(***************************************************************************)
Constructed == pc \in {"idle", "wfm_wait", "ack_wait"} \/ (pc = "prompt" /\ prompt.pc # "ident_wait")

C12_SetAtIdentification ==
    /\ ValidKind(dtype) => dtype' = dtype
    /\ dtype' # dtype =>
           /\ Waiting = "ident_wait"
           /\ last'.msg # None
           /\ last'.msg[1] = IAmADie
           /\ dtype' = last'.msg[2]

C12_KindImmutable ==
    [](Constructed => ValidKind(dtype)) /\ [][C12_SetAtIdentification]_vars

\* IAmADie with device kind 0 dispatched to a constructed PixelLink of kind 1
C12_Witness ==
    /\ pc \in {"wfm_wait", "ack_wait"}
    /\ got > 0
    /\ last.msg = <<IAmADie, 0>>
    /\ dtype = 1

(***************************************************************************)
(* C13: after a call raised the ack-timeout exception the transport is     *)
(* still connected and the PixelLink takes the next call: an upload then   *)
(* starts anew, its first bulk message BulkSetup with the whole length and *)
(* its first BulkData at offset 0, and it ends ok when its acks come.      *)
(***************************************************************************)
C13_Usable ==
    timedOut =>
        /\ device = "connected"
        /\ pc # "failed"
        /\ (pc = "idle" /\ result.status = "AckTimeout") =>
               (ENABLED UploadBulkData /\ ENABLED UploadAnimationSet)
        /\ (opname \in Uploads /\ pc \in {"ack_wait", "prompt"}) =>
               /\ BulkWritten # <<>> =>
                      BulkWritten[1] = <<BulkSetup>> \o integer_to_bytes(Len(data))
               /\ Len(BulkWritten) >= 2 =>
                      (BulkWritten[2][1] = BulkData /\ OffsetOf(BulkWritten[2]) = 0)
        /\ (AckReturns /\ stage = "data" /\ ~(NextRemaining > 0)) =>
               ENABLED LastChunkAcked

C13_Starts ==
    (timedOut /\ pc = "idle" /\ pc' = "ack_wait") =>
        /\ Len(written') = 1
        /\ written'[1][1] = IF opname' = "upload_bulk_data" THEN BulkSetup
                            ELSE TransferAnimSet
        /\ <<offset', remainingSize'>> = <<0, 0>>

C13_Ends ==
    (timedOut /\ AckReturns /\ stage = "data" /\ ~(NextRemaining > 0) /\ last' = NoLast) =>
        (pc' = "idle" /\ result'.status = "ok")

C13_SessionSurvivesTimeout ==
    [](C13_Usable) /\ [][C13_Starts /\ C13_Ends]_vars

\* an upload of 17 bytes ended ok on a PixelLink that had an ack timeout before
C13_Witness ==
    /\ timedOut
    /\ pc = "idle"
    /\ opname \in Uploads
    /\ result.status = "ok"
    /\ Len(BulkWritten) = 3
    /\ OffsetOf(BulkWritten[2]) = 0

(***************************************************************************)
(* C14: the dispatch of a message whose first byte is no MessageType       *)
(* aborts: it changes nothing of the PixelLink, fires no message_received  *)
(* and is not taken by the wait in progress, which goes on, connected.     *)
(***************************************************************************)
MessageKinds == 0..LastMessageType

C14_Dispatched ==
    (last'.msg # None /\ (Dispatch \/ last' # last) /\ last'.msg[1] \notin MessageKinds) =>
        /\ Events(last'.fired, "message_received") = <<>>
        /\ <<dtype', face_up', battery_voltage', written'>>
               = <<dtype, face_up, battery_voltage, written>>
        /\ <<first_msg', ack_msg'>> = <<first_msg, ack_msg>>
        /\ <<pc', device'>> = <<pc, device>>

C14_UnknownKindAborts == [][C14_Dispatched]_vars

(***************************************************************************)
(* C15: upload_animation_set writes the TransferAnimSet header first, and  *)
(* BulkSetup only when _send_and_ack returned a TransferAnimSetAck for it; *)
(* when that call raises the ack-timeout exception no BulkSetup and no     *)
(* BulkData was written.                                                   *)
(***************************************************************************)
C15_HeaderFirst ==
    (opname = "upload_animation_set" /\ written # <<>>) =>
        /\ written[1] = <<TransferAnimSet>> \o AnimSetHeader
        /\ stage = "header" => BulkWritten = <<>>
        /\ (pc = "idle" /\ result.status = "AckTimeout"
              /\ result.value = <<TransferAnimSetAck>>) => BulkWritten = <<>>

C15_AfterHeader ==
    (pc = "ack_wait" /\ stage = "header" /\ written' # written) =>
        /\ AckReturns
        /\ ack_msg[1] = TransferAnimSetAck
        /\ ack_msg = ackSeen
        /\ written' = Append(written, <<BulkSetup>> \o integer_to_bytes(Len(data)))

C15_HeaderTimeout ==
    (pc = "ack_wait" /\ stage = "header" /\ ack_msg = None /\ last' = NoLast
       /\ pc' # "ack_wait") =>
        /\ pc' = "idle"
        /\ result'.status = "AckTimeout"
        /\ written' = written

C15_HeaderThenBulk ==
    [](C15_HeaderFirst) /\ [][C15_AfterHeader /\ C15_HeaderTimeout]_vars

\* BulkSetup was written after the header and its ack
C15_Witness ==
    /\ pc = "ack_wait"
    /\ opname = "upload_animation_set"
    /\ stage = "setup"
    /\ Len(written) = 2
    /\ written[2][1] = BulkSetup

\* the header timed out: nothing else was written
C15_WitnessTimeout ==
    /\ pc = "idle"
    /\ opname = "upload_animation_set"
    /\ result.status = "AckTimeout"
    /\ written = <<<<TransferAnimSet>> \o AnimSetHeader>>

(***************************************************************************)
(* C16: _upload_bulk_data called with an empty payload or a negative       *)
(* timeout raises the assertion error and does nothing else: nothing is    *)
(* written and no wait is started.  (In upload_animation_set the header    *)
(* has been written and acknowledged by then; a negative timeout is        *)
(* refused there by _send_and_ack, before the header.)                     *)
(***************************************************************************)
UploadCalled(op) ==
    /\ pc = "idle"
    /\ opname' = op
    /\ collab' = collab
    /\ pc' = "ack_wait" \/ result'.status = "AssertionError"

C16_Refused ==
    /\ (\E op \in Uploads : UploadCalled(op)) =>
           IF timeout' < 0 \/ (opname' = "upload_bulk_data" /\ data' = <<>>)
           THEN /\ pc' = "idle"
                /\ result'.status = "AssertionError"
                /\ written' = <<>>
                /\ message_received' = message_received
           ELSE pc' = "ack_wait"
    /\ (pc = "ack_wait" /\ stage = "header" /\ AckReturns /\ data = <<>>
          /\ last' = NoLast) =>
           /\ pc' = "idle"
           /\ result'.status = "AssertionError"
           /\ written' = written
           /\ message_received' = collab

C16_Checked ==
    /\ pc \in {"ack_wait", "prompt"} => timeout >= 0
    /\ stage \in {"setup", "data"} => data # <<>>
    /\ (pc = "idle" /\ result.status = "AssertionError") => BulkWritten = <<>>

C16_RejectedBeforeIO == [](C16_Checked) /\ [][C16_Refused]_vars

\* _upload_bulk_data refused an empty payload: nothing written
C16_Witness ==
    /\ pc = "idle"
    /\ result = [op |-> "upload_bulk_data", status |-> "AssertionError", value |-> None]
    /\ data = <<>>
    /\ timeout >= 0
    /\ written = <<>>

(***************************************************************************)
(* C17: a BulkData message is written only when _send_and_ack has returned *)
(* the ack of the request written last, dispatched after that request was  *)
(* written: BulkSetupAck for the first chunk, BulkDataAck of the chunk     *)
(* before for the others; so one request at most is without its ack, and   *)
(* the chunks are written by increasing offset.                            *)
(***************************************************************************)
Chunks == SelectSeq(written, LAMBDA m : m[1] = BulkData)

C17_WritesChunk ==
    (Len(written') = Len(written) + 1 /\ written'[Len(written')][1] = BulkData) =>
        LET before == Requests[Len(Requests)]
            chunk == written'[Len(written')]
        IN  /\ AckReturns
            /\ ack_msg = ackSeen
            /\ ack_msg[1] = ack_type
            /\ IF Chunks = <<>>
               THEN /\ before[1] = BulkSetup
                    /\ ack_type = BulkSetupAck
                    /\ OffsetOf(chunk) = 0
               ELSE /\ before = Chunks[Len(Chunks)]
                    /\ ack_type = BulkDataAck
                    /\ OffsetOf(chunk) = OffsetOf(before) + SizeOf(before)

C17_Ordered ==
    /\ \A i, j \in 1..Len(Chunks) : i < j => OffsetOf(Chunks[i]) < OffsetOf(Chunks[j])
    /\ (pc = "ack_wait" /\ stage = "data") =>
           /\ Chunks # <<>>
           /\ Requests[Len(Requests)] = Chunks[Len(Chunks)]
           /\ OffsetOf(Chunks[Len(Chunks)]) = offset

C17_Sequential == [](C17_Ordered) /\ [][C17_WritesChunk]_vars

\* the third chunk of a payload is written and waits for its ack
C17_Witness ==
    /\ pc = "ack_wait"
    /\ stage = "data"
    /\ Len(Chunks) = 3
    /\ offset = 2 * PIXELS_MESSAGE_BULK_DATA_SIZE
    /\ ack_msg = None

(***************************************************************************)
(* C18: a dispatch that runs to its end publishes the message once on      *)
(* message_received, whatever its kind, and last: face_up and              *)
(* battery_voltage then hold what the handler stored, and face_up_changed  *)
(* or battery_voltage_changed, when the value changed, has fired before.   *)
(***************************************************************************)
C18_Dispatched ==
    Dispatch =>
        LET f == last'.fired
            n == Len(f)
        IN  /\ n >= 1
            /\ Len(Events(f, "message_received")) = 1
            /\ f[n].ev = "message_received"
            /\ f[n].val = last'.msg
            /\ f[n].face_up = face_up'
            /\ f[n].battery_voltage = battery_voltage'
            /\ face_up' # face_up => (n = 2 /\ f[1].ev = "face_up_changed")
            /\ battery_voltage' # battery_voltage =>
                   (n = 2 /\ f[1].ev = "battery_voltage_changed")

C19_AttachedAtWrite ==
    Waiting = "ack_wait" => \E i \in 1..Len(send_obs) : send_obs[i] = "ack"

(***************************************************************************)
(* C20: the constructor waits once for IAmADie.  The wait can end after    *)
(* the first notification, whatever it is; when it ends and dtype is no    *)
(* device kind (the notification was a State or BatteryLevel message, or   *)
(* IAmADie with kind 0) the constructor fails and disconnects: it does not *)
(* wait again for an IAmADie that would come later.                        *)
(***************************************************************************)
C20_CanEnd ==
    (pc = "ident_wait" /\ got >= 1 /\ ~ValidKind(dtype)) => ENABLED IdentFails

C20_WaitsOnce ==
    /\ (pc = "ident_wait" /\ pc' = "ident_wait") => Dispatch
    /\ pc' = "ident_wait" => pc \in {"new", "ident_wait", "prompt"}
    /\ (pc = "ident_wait" /\ last' = NoLast /\ ~ValidKind(dtype)) =>
           /\ pc' = "failed"
           /\ device' = "disconnected"
           /\ written' = written

====
